---- MODULE Spec2Model ----
(***************************************************************************)
(* Model of src/app.py: a Streamlit script that is re-executed from top to *)
(* bottom on every widget event of a client session.  One action of the    *)
(* model is one complete script run (including the run started by           *)
(* st.rerun()).  Texts are sequences of tokens; the sentinel is the one     *)
(* token text <<"NOT_FOUND">> and "x in y" on strings is subsequence        *)
(* containment.  External services (PDF loading, similarity search, the    *)
(* hosted models, the web search) are inputs drawn from small sets.        *)
(***************************************************************************)
EXTENDS Integers, Sequences, FiniteSets, TLC

\* ------------------------------------------------------------------ bounds
MaxSubmits == 2

Sessions == { "s1", "s2" }

\* ------------------------------------------------------ program constants
SENTINEL == <<"NOT_FOUND">>
GREETING == <<"Hello! I can help you find the best data packages or fix router issues.">>
APOLOGY == <<"I couldn't find that information in our guides or online.">>
SYSTEM_ERROR == <<"System Error: ">>
KEYS_ERROR == <<"Error: Keys not found. Please check your .env file.">>
FOLDER_ERROR == <<"Folder 'data' not found! Please create a 'data' folder.">>
NO_PDF_ERROR == <<"No PDF files found in 'data' folder!">>
LOAD_ERROR == <<"Error loading PDFs: ">>
STATUS_INFO == <<"Checking online sources...">>
DEFAULT_FLASH == <<"models/gemini-1.5-", "flash">>
DEFAULT_PRO == <<"models/gemini-", "pro">>
SECONDARY_MODEL == <<"models/gemini-1.0-", "pro">>
None == 0

\* ------------------------------------------------------------ input sets
Queries == { <<"price of 10GB?">> }
ModelTexts == { <<"10GB costs 1000 LKR">>, <<"Sorry, ", "NOT_FOUND", ".">> }
ErrDetails == { <<"429 quota">>, <<"503 unavailable">> }
Folders == { "missing", "empty", "unreadable", "guides" }

\* what genai.list_models() may yield: an error, or a list of models
ModelInfo(name, methods) == [name |-> name, supported_generation_methods |-> methods]
Listings ==
    { [ok |-> FALSE, models |-> <<>>],
      [ok |-> TRUE, models |-> <<>>],
      [ok |-> TRUE, models |-> << ModelInfo(<<"models/gemini-2.0-", "pro">>, {"countTokens"}),
                                  ModelInfo(<<"models/aqa">>, {"generateContent"}),
                                  ModelInfo(<<"models/gemini-1.5-", "flash">>, {"generateContent"}) >>] }

\* outcome of one hosted call: ok with a text, or an exception with a detail
Ok(t) == [ok |-> TRUE, text |-> t]
Fail(e) == [ok |-> FALSE, text |-> e]
Unused == [ok |-> FALSE, text |-> <<>>]

\* ------------------------------------------------------------- text helpers
\* Python "sub in text"
Contains(sub, text) ==
    \E i \in 1..(Len(text) - Len(sub) + 1) : SubSeq(text, i, i + Len(sub) - 1) = sub

IsPrefix(a, b) == Len(a) <= Len(b) /\ SubSeq(b, 1, Len(a)) = a

Message(role, content) == [role |-> role, content |-> content]

Call(stage, model, prompt, ok) == [stage |-> stage, model |-> model, prompt |-> prompt, ok |-> ok]

CountStage(calls, stage) == Cardinality({ i \in 1..Len(calls) : calls[i].stage = stage })


\* ------------------------------------------------------- get_vector_store
\* the body of get_vector_store (one cache miss): None with the error shown,
\* or a new FAISS index over the PDFs found in the folder at this moment
build_vector_store(folder, indexes) ==
    IF folder = "missing"
    THEN [value |-> None, errors |-> <<FOLDER_ERROR>>, indexes |-> indexes]
    ELSE IF folder = "unreadable"
    THEN [value |-> None, errors |-> <<LOAD_ERROR>>, indexes |-> indexes]
    ELSE IF folder = "empty"
    THEN [value |-> None, errors |-> <<NO_PDF_ERROR>>, indexes |-> indexes]
    ELSE [value |-> Len(indexes) + 1, errors |-> <<>>,
          indexes |-> Append(indexes, [documents |-> folder])]

\* a broken memoisation: the body runs on every call
get_vector_store_uncached(cache, folder, indexes) ==
    LET r == build_vector_store(folder, indexes)
    IN  [value |-> r.value, errors |-> r.errors, indexes |-> r.indexes,
         cache |-> [hit |-> TRUE, value |-> r.value, errors |-> r.errors]]

\* a memoisation that keeps only the successful results
get_vector_store_skips_none(cache, folder, indexes) ==
    IF cache.hit
    THEN [value |-> cache.value, errors |-> cache.errors, indexes |-> indexes,
          cache |-> cache]
    ELSE LET r == build_vector_store(folder, indexes)
         IN  [value |-> r.value, errors |-> r.errors, indexes |-> r.indexes,
              cache |-> IF r.value = None THEN cache
                        ELSE [hit |-> TRUE, value |-> r.value, errors |-> r.errors]]

\* @st.cache_resource: the first call runs the body and stores its return
\* value (None included) with the elements it displayed; later calls replay
get_vector_store(cache, folder, indexes) ==
    IF cache.hit
    THEN [value |-> cache.value, errors |-> cache.errors, indexes |-> indexes,
          cache |-> cache]
    ELSE LET r == build_vector_store(folder, indexes)
         IN  [value |-> r.value, errors |-> r.errors, indexes |-> r.indexes,
              cache |-> [hit |-> TRUE, value |-> r.value, errors |-> r.errors]]

\* ------------------------------------------------- get_working_model_name
RECURSIVE first_working_model(_)
first_working_model(models) ==
    IF models = <<>> THEN DEFAULT_FLASH
    ELSE LET m == Head(models)
         IN  IF /\ "generateContent" \in m.supported_generation_methods
                /\ (Contains(<<"flash">>, m.name) \/ Contains(<<"pro">>, m.name))
             THEN m.name
             ELSE first_working_model(Tail(models))

\* @st.cache_resource: a listing error is swallowed and gives DEFAULT_PRO
get_working_model_name(cache, listing) ==
    IF cache.hit
    THEN [value |-> cache.value, cache |-> cache, calls |-> <<>>]
    ELSE LET name == IF listing.ok THEN first_working_model(listing.models)
                     ELSE DEFAULT_PRO
         IN  [value |-> name, cache |-> [hit |-> TRUE, value |-> name],
              calls |-> <<Call("list_models", <<>>, "", listing.ok)>>]

\* --------------------------------------------------------- generate_answer
\* the outcomes of the external steps of one query; a step the run does not
\* reach is Unused (FALSE for the two steps without a text)
Outcomes == { Ok(t) : t \in ModelTexts } \cup { Fail(e) : e \in ErrDetails }
WebOutcomes == { Ok(t) : t \in ModelTexts } \cup { Fail(<<"web model error">>) }

Oracles ==
    { o \in [search : BOOLEAN, primary : Outcomes \cup {Unused},
             secondary : Outcomes \cup {Unused}, tavily : BOOLEAN,
             webgen : WebOutcomes \cup {Unused}] :
        LET first == IF o.primary.ok THEN o.primary ELSE o.secondary
            web == o.search /\ first.ok /\ Contains(SENTINEL, first.text)
        IN  /\ (o.primary = Unused) = ~o.search
            /\ (o.secondary = Unused) = (~o.search \/ o.primary.ok)
            /\ o.tavily => web
            /\ (o.webgen = Unused) = ~(web /\ o.tavily) }

\* a handler that reports the exception of the retry instead
system_error_inner(e, inner) == SYSTEM_ERROR \o inner

\* line 134, reached from the inner handler: e is the name bound by the outer
\* "except Exception as e", the inner bare except binds nothing
system_error(e, inner) == SYSTEM_ERROR \o e

\* a test that sends the answered queries to the web instead
is_not_found_inverted(answer) == ~Contains(SENTINEL, answer)

\* line 136: "NOT_FOUND" in answer
is_not_found(answer) == Contains(SENTINEL, answer)

Returned(text, answer, calls, status) ==
    [raised |-> FALSE, ret |-> text, answer |-> answer, calls |-> calls, status |-> status]

Raised(calls) ==
    [raised |-> TRUE, ret |-> <<>>, answer |-> <<>>, calls |-> calls, status |-> <<>>]

\* a fallback that hands back the first-stage text after the web round
web_fallback_returns_answer(answer, model, calls, o) ==
    IF is_not_found(answer)
    THEN LET c1 == Append(calls, Call("tavily", <<>>, "query", o.tavily))
         IN  IF ~o.tavily
             THEN Returned(APOLOGY, answer, c1, <<STATUS_INFO>>)
             ELSE LET c2 == Append(c1, Call("generate", model, "web", o.webgen.ok))
                  IN  IF o.webgen.ok
                      THEN Returned(answer, answer, c2, <<>>)
                      ELSE Returned(APOLOGY, answer, c2, <<STATUS_INFO>>)
    ELSE Returned(answer, answer, calls, <<>>)

\* lines 136-162: the sentinel test and the web fallback; model is the
\* GenerativeModel object the first stage left in the local variable
web_fallback(answer, model, calls, o) ==
    IF is_not_found(answer)
    THEN LET c1 == Append(calls, Call("tavily", <<>>, "query", o.tavily))
         IN  IF ~o.tavily
             THEN Returned(APOLOGY, answer, c1, <<STATUS_INFO>>)
             ELSE LET c2 == Append(c1, Call("generate", model, "web", o.webgen.ok))
                  IN  IF o.webgen.ok
                      THEN Returned(o.webgen.text, answer, c2, <<>>)
                      ELSE Returned(APOLOGY, answer, c2, <<STATUS_INFO>>)
    ELSE Returned(answer, answer, calls, <<>>)

\* lines 104-162; calls is the log of external calls made so far in the run
generate_answer(query, vector_store, model_name, calls, o) ==
    LET c0 == Append(calls, Call("similarity_search", <<>>, "query", o.search))
    IN  IF ~o.search
        THEN Raised(c0)
        ELSE LET c1 == Append(c0, Call("generate", model_name, "pdf", o.primary.ok))
             IN  IF o.primary.ok
                 THEN web_fallback(o.primary.text, model_name, c1, o)
                 ELSE LET c2 == Append(c1, Call("generate", SECONDARY_MODEL, "pdf",
                                                 o.secondary.ok))
                      IN  IF o.secondary.ok
                          THEN web_fallback(o.secondary.text, SECONDARY_MODEL, c2, o)
                          ELSE Returned(system_error(o.primary.text, o.secondary.text),
                                        <<>>, c2, <<>>)

\* ------------------------------------------------------------ the script
NoGen == [raised |-> FALSE, ret |-> <<>>, answer |-> <<>>, calls |-> <<>>, status |-> <<>>]
NoInput == <<>>
NoListing == [ok |-> FALSE, models |-> <<>>]
NoOracle == [search |-> FALSE, primary |-> Unused, secondary |-> Unused,
             tavily |-> FALSE, webgen |-> Unused]
NewSession == [k \in {} |-> <<>>]

SetMessages(ss, msgs) == [k \in DOMAIN ss \cup {"messages"} |-> msgs]

\* an append that puts the new message in front
append_message_front(ss, msg) == SetMessages(ss, <<msg>> \o ss["messages"])

\* lines 192 and 199: st.session_state.messages.append(...)
append_message(ss, msg) == SetMessages(ss, Append(ss["messages"], msg))

\* lines 172-199: the chat surface, reached with the sidebar already drawn
chat_page(ss, vector_store, user_input, model_cache, listing, o) ==
    IF vector_store = None
    THEN [state |-> ss, rendered |-> <<>>, widgets |-> {"clear_button"},
          mn_cache |-> model_cache, gen |-> NoGen]
    ELSE LET ss1 == IF "messages" \notin DOMAIN ss
                    THEN SetMessages(ss, <<Message("ai", GREETING)>>)
                    ELSE ss
             shown == ss1["messages"]
         IN  IF user_input = NoInput
             THEN [state |-> ss1, rendered |-> shown,
                   widgets |-> {"clear_button", "chat_input"},
                   mn_cache |-> model_cache, gen |-> NoGen]
             ELSE LET human == Message("human", user_input)
                      ss2 == append_message(ss1, human)
                      mn == get_working_model_name(model_cache, listing)
                      g == generate_answer(user_input, vector_store, mn.value, mn.calls, o)
                      ai == Message("ai", g.ret)
                  IN  IF g.raised
                      THEN [state |-> ss2, rendered |-> Append(shown, human),
                            widgets |-> {"clear_button", "chat_input"},
                            mn_cache |-> mn.cache, gen |-> g]
                      ELSE [state |-> append_message(ss2, ai),
                            rendered |-> shown \o <<human, ai>>,
                            widgets |-> {"clear_button", "chat_input"},
                            mn_cache |-> mn.cache, gen |-> g]

\* lines 54-56: the button handler, then the state the rerun starts from
clear_conversation(ss) == SetMessages(ss, <<>>)

VARIABLES google_api_key, tavily_api_key, data_folder, vs_cache, mn_cache,
          indexes, session_state, widgets, submits, last

vars == <<google_api_key, tavily_api_key, data_folder, vs_cache, mn_cache,
          indexes, session_state, widgets, submits, last>>

Init ==
    /\ google_api_key \in BOOLEAN
    /\ tavily_api_key \in BOOLEAN
    /\ data_folder \in Folders
    /\ vs_cache = [hit |-> FALSE, value |-> None, errors |-> <<>>]
    /\ mn_cache = [hit |-> FALSE, value |-> <<>>]
    /\ indexes = <<>>
    /\ session_state = [s \in Sessions |-> NewSession]
    /\ widgets = [s \in Sessions |-> {}]
    /\ submits = 0
    /\ last = [session |-> "", event |-> "init", stopped |-> FALSE, errors |-> <<>>,
               vector_store |-> None, rendered |-> <<>>, query |-> NoInput,
               oracle |-> NoOracle, gen |-> NoGen]

\* one run of the script for session s: lines 13-20 stop it without keys;
\* a clear click assigns the empty list and st.rerun() starts the run over
\* with no widget event; otherwise the run goes on to line 172
ScriptRun(s, event, user_input, listing, o) ==
    IF ~(google_api_key /\ tavily_api_key)
    THEN /\ last' = [session |-> s, event |-> event, stopped |-> TRUE,
                     errors |-> <<KEYS_ERROR>>, vector_store |-> None,
                     rendered |-> <<>>, query |-> user_input,
                     oracle |-> o, gen |-> NoGen]
         /\ widgets' = [widgets EXCEPT ![s] = {}]
         /\ UNCHANGED <<vs_cache, mn_cache, indexes, session_state>>
    ELSE LET ss == IF event = "clear" THEN clear_conversation(session_state[s])
                   ELSE session_state[s]
             vs == get_vector_store(vs_cache, data_folder, indexes)
             page == chat_page(ss, vs.value, user_input, mn_cache, listing, o)
         IN  /\ vs_cache' = vs.cache
             /\ indexes' = vs.indexes
             /\ mn_cache' = page.mn_cache
             /\ session_state' = [session_state EXCEPT ![s] = page.state]
             /\ widgets' = [widgets EXCEPT ![s] = page.widgets]
             /\ last' = [session |-> s, event |-> event, stopped |-> FALSE,
                         errors |-> vs.errors, vector_store |-> vs.value,
                         rendered |-> page.rendered, query |-> user_input,
                         oracle |-> o, gen |-> page.gen]

\* a browser load or a plain rerun of the script
Rerun(s) ==
    /\ ScriptRun(s, "none", NoInput, NoListing, NoOracle)
    /\ UNCHANGED <<google_api_key, tavily_api_key, data_folder, submits>>

\* the user clicks "Clear Conversation"
Clear(s) ==
    /\ "clear_button" \in widgets[s]
    /\ ScriptRun(s, "clear", NoInput, NoListing, NoOracle)
    /\ UNCHANGED <<google_api_key, tavily_api_key, data_folder, submits>>

\* the user sends a question through st.chat_input
Submit(s) ==
    /\ "chat_input" \in widgets[s]
    /\ submits < MaxSubmits
    /\ \E q \in Queries, o \in Oracles :
         \E listing \in (IF mn_cache.hit THEN {NoListing} ELSE Listings) :
            ScriptRun(s, "submit", q, listing, o)
    /\ submits' = submits + 1
    /\ UNCHANGED <<google_api_key, tavily_api_key, data_folder>>

\* the operator adds, removes or replaces the PDF guides on disk
ChangeFolder ==
    /\ \E f \in Folders \ {data_folder} : data_folder' = f
    /\ UNCHANGED <<google_api_key, tavily_api_key, vs_cache, mn_cache, indexes,
                   session_state, widgets, submits, last>>

Next ==
    \/ \E s \in Sessions : Rerun(s)
    \/ \E s \in Sessions : Clear(s)
    \/ \E s \in Sessions : Submit(s)
    \/ ChangeFolder

Spec == Init /\ [][Next]_vars

\* ------------------------------------------------------------ properties
HistoryOf(ss) == IF "messages" \in DOMAIN ss THEN ss["messages"] ELSE <<>>
History(s) == HistoryOf(session_state[s])

Submitted == last.event = "submit"
Calls == last.gen.calls
FirstStage == IF last.oracle.primary.ok THEN last.oracle.primary ELSE last.oracle.secondary
WebSucceeded == last.oracle.tavily /\ last.oracle.webgen.ok
ModelCalls(model, prompt) ==
    { i \in 1..Len(Calls) :
        Calls[i].stage = "generate" /\ Calls[i].model = model /\ Calls[i].prompt = prompt }
\* the most recent run ended in one of the two startup failures
StartupFailed == last.event # "init" /\ (last.stopped \/ last.vector_store = None)

\* C1 (as claimed): after a run started by the Clear Conversation click the
\* history of that session is exactly the one ai greeting message.
C1_ClearReseedsGreeting ==
    (last.event = "clear" /\ ~last.stopped /\ last.vector_store # None)
        => History(last.session) = <<Message("ai", GREETING)>>

\* C2 (as claimed): when the first-stage text contains the sentinel the web
\* search runs exactly once, the answer is the web fallback's result, and no
\* ai message of any history contains the sentinel.
C2_SentinelNeverShown ==
    (Submitted /\ FirstStage.ok /\ Contains(SENTINEL, FirstStage.text))
        => /\ CountStage(Calls, "tavily") = 1
           /\ last.gen.ret = (IF WebSucceeded THEN last.oracle.webgen.text ELSE APOLOGY)
           /\ \A s \in Sessions : \A i \in 1..Len(History(s)) :
                 History(s)[i].role = "ai" => ~Contains(SENTINEL, History(s)[i].content)

\* C2 (amended): when the first-stage text contains the sentinel the web
\* search runs exactly once, the answer returned and appended as the ai
\* message is the web fallback's result (the web-grounded text on success,
\* the apology otherwise), and that message contains the sentinel only when
\* the web-grounded text itself does.
C2_SentinelFallback ==
    (Submitted /\ FirstStage.ok /\ Contains(SENTINEL, FirstStage.text))
        => LET h == History(last.session)
           IN  /\ CountStage(Calls, "tavily") = 1
               /\ ~last.gen.raised
               /\ last.gen.ret = (IF WebSucceeded THEN last.oracle.webgen.text ELSE APOLOGY)
               /\ h[Len(h)] = Message("ai", last.gen.ret)
               /\ Contains(SENTINEL, h[Len(h)].content)
                     = (WebSucceeded /\ Contains(SENTINEL, last.oracle.webgen.text))

C2_Witness ==
    /\ Submitted /\ last.oracle.primary.ok /\ Contains(SENTINEL, last.oracle.primary.text)
    /\ WebSucceeded /\ ~Contains(SENTINEL, last.oracle.webgen.text)
    /\ Len(History(last.session)) >= 3

\* C3 (as claimed): every submission appends exactly the human message with
\* the input followed by the ai message with the result.
C3_GrowsByTwo ==
    [][\A s \in Sessions :
        (last'.event = "submit" /\ last'.session = s /\ submits' = submits + 1)
            => History(s)' = History(s) \o << Message("human", last'.query),
                                              Message("ai", last'.gen.ret) >>]_vars

\* C4 (as claimed): no failure of an external step of a query escapes
\* generate_answer.
C4_NothingEscapes == Submitted => ~last.gen.raised

\* C5 (as claimed): the secondary model is invoked at most once in a query
\* and only after the primary invocation failed; when it fails too the
\* answer is the system error with the primary failure's detail, no web
\* search is made and the chat input is there for the next submission.
C5_SecondaryAtMostOnce ==
    Submitted =>
        /\ Cardinality({ i \in 1..Len(Calls) : Calls[i].model = SECONDARY_MODEL }) <= 1
        /\ \A i \in 1..Len(Calls) :
              Calls[i].model = SECONDARY_MODEL =>
                  i > 1 /\ Calls[i-1].stage = "generate" /\ ~Calls[i-1].ok
        /\ (last.oracle.search /\ ~last.oracle.primary.ok /\ ~last.oracle.secondary.ok)
              => /\ last.gen.ret = SYSTEM_ERROR \o last.oracle.primary.text
                 /\ CountStage(Calls, "tavily") = 0
                 /\ "chat_input" \in widgets[last.session]

\* C5 (amended): the secondary model gets the guide prompt at most once in a
\* query, only right after the primary invocation failed, and at most one
\* more invocation, with the web prompt after a web search; when the retry
\* fails too the answer is the system error with the primary failure's
\* detail, appended as the ai message, no web search is made and the chat
\* input is there for the next submission.
C5_SecondaryRetry ==
    Submitted =>
        /\ Cardinality(ModelCalls(SECONDARY_MODEL, "pdf")) <= 1
        /\ Cardinality(ModelCalls(SECONDARY_MODEL, "web")) <= 1
        /\ \A i \in ModelCalls(SECONDARY_MODEL, "pdf") :
              /\ i > 1 /\ Calls[i-1].stage = "generate" /\ Calls[i-1].prompt = "pdf"
              /\ Calls[i-1].model = mn_cache.value /\ ~Calls[i-1].ok
              /\ ~last.oracle.primary.ok
        /\ \A i \in ModelCalls(SECONDARY_MODEL, "web") :
              i > 1 /\ Calls[i-1].stage = "tavily" /\ Calls[i-1].ok
        /\ (last.oracle.search /\ ~last.oracle.primary.ok /\ ~last.oracle.secondary.ok)
              => LET h == History(last.session)
                 IN  /\ ~last.gen.raised
                     /\ last.gen.ret = SYSTEM_ERROR \o last.oracle.primary.text
                     /\ h[Len(h)] = Message("ai", last.gen.ret)
                     /\ CountStage(Calls, "tavily") = 0
                     /\ "chat_input" \in widgets[last.session]

C5_Witness ==
    /\ Submitted /\ last.oracle.search
    /\ ~last.oracle.primary.ok /\ ~last.oracle.secondary.ok
    /\ last.oracle.primary.text # last.oracle.secondary.text
    /\ submits = 1

\* C6 (as claimed): after a failed startup (a missing key, or a data folder
\* that is missing or gives no documents) an error is shown, no chat surface
\* is rendered, no query is processed, no index is built by a retry, and no
\* user interaction with a session takes place.
C6_NoInteractionAfterFailedStartup ==
    StartupFailed =>
        /\ last.errors # <<>>
        /\ last.rendered = <<>>
        /\ \A s \in Sessions : "chat_input" \notin widgets[s]
        /\ submits = 0 /\ Calls = <<>>
        /\ indexes = <<>>
        /\ last.event \notin {"clear", "submit"}
        /\ \A s \in Sessions : session_state[s] = NewSession

\* C6 (amended): a failed startup is permanent and on every later run an
\* error is shown, no chat surface (history, input box) is rendered, no
\* query is processed, no message enters any history and no index is built
\* by a retry; with a missing key no widget is rendered at all, while with a
\* failed index the sidebar with its Clear Conversation button is rendered,
\* and a click on it is the one interaction left (it sets the history to
\* the empty list).
C6_StartupFailureIsFinal ==
    [][/\ StartupFailed => StartupFailed'
       /\ StartupFailed' =>
            /\ last'.errors # <<>>
            /\ last'.rendered = <<>>
            /\ \A s \in Sessions : "chat_input" \notin widgets'[s]
            /\ submits' = 0 /\ last'.gen.calls = <<>>
            /\ indexes' = <<>>
            /\ last'.event # "submit"
            /\ \A s \in Sessions : session_state'[s] \in {NewSession, [messages |-> <<>>]}
            /\ widgets'[last'.session] = (IF last'.stopped THEN {} ELSE {"clear_button"})
            /\ last'.stopped = ~(google_api_key' /\ tavily_api_key')
            /\ last'.event = "clear" =>
                  session_state'[last'.session] = [messages |-> <<>>]]_vars

C6_Witness ==
    /\ StartupFailed /\ ~last.stopped /\ last.event = "clear"
    /\ last.errors = <<NO_PDF_ERROR>>
    /\ data_folder = "guides"
    /\ \A s \in Sessions : widgets[s] = {"clear_button"}

\* C7: the index is built at most once in the process; once the cache is
\* filled it never changes, every run of every session gets the cached
\* value, and no step changes an index that exists.
C7_IndexBuiltOnce ==
    [][/\ Len(indexes') <= 1
       /\ IsPrefix(indexes, indexes')
       /\ vs_cache.hit => (vs_cache' = vs_cache /\ indexes' = indexes)
       /\ (last' # last /\ ~last'.stopped) =>
            (vs_cache'.hit /\ last'.vector_store = vs_cache'.value)
       /\ vs_cache'.hit => vs_cache'.value = Len(indexes')]_vars

C7_Witness ==
    /\ Len(indexes) = 1 /\ vs_cache.value = 1
    /\ data_folder # indexes[1].documents
    /\ Submitted /\ last.session = "s2" /\ last.vector_store = 1
    /\ Len(History("s1")) = 0 /\ "messages" \in DOMAIN session_state["s1"]

\* C8: the web search and the web-grounded model call happen in a query only
\* when the first stage of that query returned a text with the sentinel;
\* never after an answer without it, nor after both model calls failed.
C8_WebOnlyAfterSentinel ==
    Submitted =>
        /\ (CountStage(Calls, "tavily") > 0 \/ \E i \in 1..Len(Calls) : Calls[i].prompt = "web")
              => (FirstStage.ok /\ Contains(SENTINEL, FirstStage.text))
        /\ (FirstStage.ok /\ ~Contains(SENTINEL, FirstStage.text))
              => (last.gen.ret = FirstStage.text /\ CountStage(Calls, "generate") <= 2)

C8_Witness ==
    /\ Submitted /\ ~last.oracle.primary.ok /\ last.oracle.secondary.ok
    /\ Contains(SENTINEL, last.oracle.secondary.text)
    /\ CountStage(Calls, "tavily") = 1 /\ ~last.oracle.tavily

\* C9: but for the step of a clear, the history a session had before a step
\* is a prefix of the one it has after it, and a run that draws the chat
\* surface shows the messages in the order of the history.
C9_AppendOnly ==
    [][/\ \A s \in Sessions :
            \/ last'.event = "clear" /\ last'.session = s /\ last' # last
            \/ IsPrefix(History(s), History(s)')
       /\ (~last'.stopped /\ last'.vector_store # None)
            => last'.rendered = HistoryOf(session_state'[last'.session])]_vars

C9_Witness ==
    /\ Submitted /\ ~last.gen.raised /\ submits = 2
    /\ Len(History(last.session)) = 5
    /\ last.rendered = History(last.session)

\* C10 (as claimed): in every history no two consecutive messages have the
\* same role.
C10_RolesAlternate ==
    \A s \in Sessions : \A i \in 1..(Len(History(s)) - 1) :
        History(s)[i].role # History(s)[i+1].role

====
